---- MODULE Spec2Model ----
(***************************************************************************)
(* luppiter-acme worker (src/src/index.ts): issues one certificate for the *)
(* domains assigned by the coordinator, proving control with ACME dns-01   *)
(* challenges whose DNS propagation is polled by waitUntilVerify.          *)
(*                                                                         *)
(* One action per resumption of startWorker (the response of the awaited   *)
(* call together with the code that runs up to the next await), one per    *)
(* callback of waitUntilVerify (interval tick, CNAME answer, TXT answer,   *)
(* settle timeout), one per step of each concurrent finalize task, and the *)
(* environment's actions (DNS publication, passage of time).               *)
(* Time is counted in seconds and advances in steps of one poll interval.  *)
(***************************************************************************)
EXTENDS Integers, Sequences, FiniteSets, TLC

\* ------------------------------------------------------------- bounds
\* Most domains the coordinator assigns to one job.
MaxDomains == 2
\* Most lookups of one kind (CNAME of one key, TXT of one key and address)
\* that are outstanding at the same time.
MaxInflight == 1

\* ------------------------------------------------- program constants
\* setInterval(..., 5 * 1000, ...), in seconds.
PollInterval == 5
\* setTimeout(() => resolve(), 15 * 1000), in seconds.
SettleDelay == 15

\* Time advances by one poll interval at a time.
Quantum == PollInterval
\* Ages are counted up to one quantum past the delay they are compared with.
AppearCap == PollInterval + Quantum
ObsCap == SettleDelay + Quantum
NoTimer == 0 - 1
NoAge == 0 - 1

\* ------------------------------------------------------- environment
Slots == 1..MaxDomains
DomainName(n) == "d" \o ToString(n) \o ".example.com"
\* The domain list the coordinator assigns: d1 .. dn.
DomainList(n) == [i \in 1..n |-> DomainName(i)]
\* CNAME targets in the zone the coordinator publishes to.
Addrs == {"t1.acme.zone", "t2.acme.zone"}
\* A TXT record unrelated to ACME that every target carries, in two chunks.
ForeignTxt == <<"v=spf1", "-all">>
\* The orders in which the ACME server may list n authorizations.
Perms(n) == {p \in [1..n -> 1..n] : \A i, j \in 1..n : p[i] = p[j] => i = j}
\* The challenge lists an authorization for domain d may offer.
ChallengeOffers(d) ==
  { << [type |-> "http-01", token |-> "h-" \o d],
       [type |-> "dns-01", token |-> "t-" \o d] >>,
    << [type |-> "http-01", token |-> "h-" \o d] >>,
    << [type |-> "dns-01", token |-> "t-" \o d],
       [type |-> "http-01", token |-> "h-" \o d],
       [type |-> "dns-01", token |-> "u-" \o d] >> }
Authorization(d, cs) == [identifier |-> [type |-> "dns", value |-> d], challenges |-> cs]

\* --------------------------------------------------- pure functions
\* domains.map((d) => ({ type: "dns", value: d }))
Identifiers(ds) == [i \in 1..Len(ds) |-> [type |-> "dns", value |-> ds[i]]]

\* auth.challenges.filter((c) => c.type === "dns-01")
IsDns01(c) == c.type = "dns-01"
Dns01FilterAny(auth) == auth.challenges
Dns01Filter(auth) == SelectSeq(auth.challenges, IsDns01)

\* `_acme-challenge.${c.auth.identifier.value}`
RecordKey(c) == "_acme-challenge." \o c.auth.identifier.value

\* acmeClient.getChallengeKeyAuthorization(c.challenge): the digest of the
\* challenge's token and the account key, a function of the token.
KeyAuthorization(ch) == "ka:" \o ch.token

\* records.map((r) => r.value), the records field of registerChallenges
PushKeys(rs) == [i \in 1..Len(rs) |-> rs[i].key]
PushPayload(rs) == [i \in 1..Len(rs) |-> rs[i].value]

\* [].concat(...result)
RECURSIVE Flatten(_)
Flatten(result) ==
  IF result = <<>> THEN <<>> ELSE Head(result) \o Flatten(Tail(result))

\* records.indexOf(v) !== -1
IndexOfFound(rs, v) == \E n \in 1..Len(rs) : rs[n] = v

VARIABLES
  assigned,   \* coordinator: the domains assigned to this worker
  cname,      \* DNS: CNAME targets of each challenge key
  txt,        \* DNS: TXT values published at each name
  pc,         \* the await startWorker is suspended at, or "done" / "failed"
  failedAt,   \* the first call that was answered with an error, or ""
  domains,    \* result of fetchDomains
  order,      \* identifiers of the created order
  auths,      \* result of getAuthorizations
  challenges, \* getChallenges(...).challenges
  keyTask,    \* per record: state of its getChallengeKeyAuthorization call
  keyVals,    \* per record: the key authorization received
  records,    \* the expected records, once Promise.all resolved
  pushed,     \* payload of the registerChallenges request, once sent
  rpcCalls,   \* coordinator RPCs issued, in order
  acmeCalls,  \* ACME calls issued: <<operation, index>>
  reported,   \* payload of verifiedCallback, once sent
  ivl,        \* per watcher: seconds to the next interval tick, or NoTimer
  cnameQ,     \* per watcher: outstanding resolveCname calls
  txtQ,       \* per watcher and address: outstanding resolveTxt calls
  settle,     \* per watcher: seconds left of each pending settle timeout
  signalled,  \* per watcher: its promise is resolved
  seenV,      \* per watcher: a TXT answer for a CNAME target held V
  appearAge,  \* per watcher, until it signals: seconds from V's first
              \* appearance at a CNAME target to its first observation (or
              \* to now), or NoAge
  obsAge,     \* per watcher, until it signals: seconds since the first
              \* observation of V, or NoAge
  fin         \* per challenge: position of its finalize task

zoneVars == <<assigned, cname>>
orderVars == <<domains, order, auths, challenges>>
keyVars == <<keyTask, keyVals, records, pushed>>
watchVars == <<ivl, cnameQ, txtQ, settle, signalled, seenV, appearAge, obsAge>>
vars == <<assigned, cname, txt, pc, failedAt, domains, order, auths, challenges,
          keyTask, keyVals, records, pushed, rpcCalls, acmeCalls, reported,
          ivl, cnameQ, txtQ, settle, signalled, seenV, appearAge, obsAge, fin>>

N == Len(challenges)
Idx == 1..N
KeyNames == {"_acme-challenge." \o DomainName(n) : n \in Slots}
Names == Addrs \cup KeyNames
CnameOptions == {{}, {"t1.acme.zone"}, Addrs}
\* The CNAME records of the challenge keys when n domains are assigned: a
\* single domain's key has none, one or two targets; with several domains
\* every key is an alias of the zone's first target.
Zones(n) ==
  IF n = 1
    THEN {[k \in KeyNames |-> IF k = "_acme-challenge." \o DomainName(1) THEN c ELSE {}] :
            c \in CnameOptions}
    ELSE {[k \in KeyNames |-> IF \E i \in 1..n : k = "_acme-challenge." \o DomainName(i)
                                 THEN {"t1.acme.zone"} ELSE {}]}

Init ==
  /\ \E n \in 1..MaxDomains :
       /\ assigned = DomainList(n)
       /\ cname \in Zones(n)
  /\ txt = [n \in Names |-> {}]
  /\ pc = "createPrivateKey"
  /\ failedAt = ""
  /\ domains = <<>>
  /\ order = <<>>
  /\ auths = <<>>
  /\ challenges = <<>>
  /\ keyTask = [i \in Slots |-> "idle"]
  /\ keyVals = [i \in Slots |-> ""]
  /\ records = <<>>
  /\ pushed = <<>>
  /\ rpcCalls = <<>>
  /\ acmeCalls = {}
  /\ reported = <<>>
  /\ ivl = [i \in Slots |-> NoTimer]
  /\ cnameQ = [i \in Slots |-> 0]
  /\ txtQ = [i \in Slots |-> [a \in Addrs |-> 0]]
  /\ settle = [i \in Slots |-> <<>>]
  /\ signalled = [i \in Slots |-> FALSE]
  /\ seenV = [i \in Slots |-> FALSE]
  /\ appearAge = [i \in Slots |-> NoAge]
  /\ obsAge = [i \in Slots |-> NoAge]
  /\ fin = [i \in Slots |-> "idle"]

\* ---------------------------------------------------------- startWorker
\* An awaited call rejects: startWorker's promise rejects. Nothing handles the
\* rejection and nothing cancels the tasks that are already running.
Reject(call) ==
  /\ pc' = "failed"
  /\ failedAt' = IF failedAt = "" THEN call ELSE failedAt

\* initialize: createPrivateKey resolved; the client is built and
\* registerClient is sent.
CreatePrivateKeyDone ==
  /\ pc = "createPrivateKey"
  /\ pc' = "registerClient"
  /\ rpcCalls' = Append(rpcCalls, "registerClient")
  /\ UNCHANGED <<zoneVars, txt, failedAt, orderVars, keyVars, acmeCalls, reported,
                 watchVars, fin>>

\* registerClient answered; on success createAccount is called.
RegisterClientResp ==
  /\ pc = "registerClient"
  /\ \E e \in BOOLEAN :
       IF e
         THEN /\ Reject("registerClient")
              /\ UNCHANGED acmeCalls
         ELSE /\ pc' = "createAccount"
              /\ acmeCalls' = acmeCalls \cup {<<"createAccount", 0>>}
              /\ UNCHANGED failedAt
  /\ UNCHANGED <<zoneVars, txt, orderVars, keyVars, rpcCalls, reported, watchVars, fin>>

\* createAccount answered; on success fetchDomains is sent.
CreateAccountResp ==
  /\ pc = "createAccount"
  /\ \E e \in BOOLEAN :
       IF e
         THEN /\ Reject("createAccount")
              /\ UNCHANGED rpcCalls
         ELSE /\ pc' = "fetchDomains"
              /\ rpcCalls' = Append(rpcCalls, "fetchDomains")
              /\ UNCHANGED failedAt
  /\ UNCHANGED <<zoneVars, txt, orderVars, keyVars, acmeCalls, reported, watchVars, fin>>

\* The fetchDomains callback: if (e) reject(e) else resolve(res.domains).
\* The position startWorker moves to.
FetchDomainsSwallowed(e) == "createOrder"
FetchDomainsSettled(e) == IF e THEN "failed" ELSE "createOrder"

\* fetchDomains answered with an error or with res.domains; getChallenges
\* then calls createOrder for the identifiers.
FetchDomainsResp ==
  /\ pc = "fetchDomains"
  /\ \E e \in BOOLEAN :
       /\ failedAt' = IF e THEN "fetchDomains" ELSE failedAt
       /\ pc' = FetchDomainsSettled(e)
       /\ IF pc' = "failed"
            THEN UNCHANGED <<domains, acmeCalls>>
            ELSE /\ domains' = assigned
                 /\ acmeCalls' = acmeCalls \cup {<<"createOrder", 0>>}
  /\ UNCHANGED <<zoneVars, txt, order, auths, challenges, keyVars, rpcCalls, reported,
                 watchVars, fin>>

\* createOrder answered; on success getAuthorizations is called.
CreateOrderResp ==
  /\ pc = "createOrder"
  /\ \E e \in BOOLEAN :
       IF e
         THEN /\ Reject("createOrder")
              /\ UNCHANGED <<order, acmeCalls>>
         ELSE /\ order' = Identifiers(domains)
              /\ pc' = "getAuthorizations"
              /\ acmeCalls' = acmeCalls \cup {<<"getAuthorizations", 0>>}
              /\ UNCHANGED failedAt
  /\ UNCHANGED <<zoneVars, txt, domains, auths, challenges, keyVars, rpcCalls, reported,
                 watchVars, fin>>

\* authorizations.map(...) of getChallenges: the first dns-01 challenge of each
\* authorization, in the order of the authorizations; it throws when an
\* authorization has none.
HasDns01(as) == \A i \in 1..Len(as) : Len(Dns01Filter(as[i])) # 0
SelectChallenges(as) ==
  [i \in 1..Len(as) |-> [auth |-> as[i], challenge |-> Dns01Filter(as[i])[1]]]

\* What getAuthorizations may return for an order: one authorization per
\* identifier, in the order the server lists them, each with the challenges
\* the server offers.
AuthorizationLists(o) ==
  UNION { { [i \in 1..Len(o) |-> Authorization(o[p[i]].value, cs[i])] :
              cs \in {c \in [1..Len(o) -> UNION {ChallengeOffers(o[k].value) : k \in 1..Len(o)}] :
                        \A i \in 1..Len(o) : c[i] \in ChallengeOffers(o[p[i]].value)} } :
          p \in Perms(Len(o)) }

\* getAuthorizations answered. getChallenges throws if an authorization has no
\* dns-01 challenge; otherwise startWorker starts one key-authorization
\* request per challenge.
GetAuthorizationsResp ==
  /\ pc = "getAuthorizations"
  /\ \/ /\ Reject("getAuthorizations")
        /\ UNCHANGED <<auths, challenges, keyTask, acmeCalls>>
     \/ \E as \in AuthorizationLists(order) :
          /\ auths' = as
          /\ IF HasDns01(as)
               THEN /\ challenges' = SelectChallenges(as)
                    /\ keyTask' = [i \in Slots |->
                                     IF i <= Len(as) THEN "pending" ELSE "idle"]
                    /\ acmeCalls' = acmeCalls \cup
                         {<<"getChallengeKeyAuthorization", i>> : i \in 1..Len(as)}
                    /\ pc' = "keyAuthorization"
                    /\ UNCHANGED failedAt
               ELSE /\ Reject("getChallenges")
                    /\ UNCHANGED <<challenges, keyTask, acmeCalls>>
  /\ UNCHANGED <<zoneVars, txt, domains, order, keyVals, records, pushed, rpcCalls,
                 reported, watchVars, fin>>

\* Promise.all over the key-authorization requests, the watchers and the
\* finalize tasks: resolved when every one of them is.
AnyRecordReady(kt) == \E j \in Idx : kt[j] = "done"
RecordsReady(kt) == \A j \in Idx : kt[j] = "done"
AnyVerified(sig) == \E j \in Idx : sig[j]
AllVerified(sig) == \A j \in Idx : sig[j]
AnyFinalized(f) == \E j \in Idx : f[j] = "done"
AllFinalized(f) == \A j \in Idx : f[j] = "done"

\* The record of challenge i: { key: ..., value: await ... }
ExpectedRecordOfFirst(i) == [key |-> RecordKey(challenges[1]), value |-> keyVals'[1]]
ExpectedRecord(i) == [key |-> RecordKey(challenges[i]), value |-> keyVals'[i]]

\* One getChallengeKeyAuthorization call answered. When it was the last one,
\* Promise.all resolves with the records in challenge order and pushRecords
\* sends registerChallenges. A rejection rejects startWorker; the other
\* requests stay outstanding.
KeyAuthorizationResp(i) ==
  /\ i \in Idx
  /\ keyTask[i] = "pending"
  /\ \E e \in BOOLEAN :
       IF e
         THEN /\ keyTask' = [keyTask EXCEPT ![i] = "failed"]
              /\ Reject("getChallengeKeyAuthorization")
              /\ UNCHANGED <<keyVals, records, pushed, rpcCalls>>
         ELSE /\ keyTask' = [keyTask EXCEPT ![i] = "done"]
              /\ keyVals' = [keyVals EXCEPT ![i] = KeyAuthorization(challenges[i].challenge)]
              /\ UNCHANGED failedAt
              /\ IF pc = "keyAuthorization" /\ RecordsReady(keyTask')
                   THEN /\ records' = [j \in Idx |-> ExpectedRecord(j)]
                        /\ pushed' = PushPayload(records')
                        /\ rpcCalls' = Append(rpcCalls, "registerChallenges")
                        /\ pc' = "registerChallenges"
                   ELSE UNCHANGED <<records, pushed, rpcCalls, pc>>
  /\ UNCHANGED <<zoneVars, txt, orderVars, acmeCalls, reported, watchVars, fin>>

\* ------------------------------------------------------------------ DNS
WKey(i) == records[i].key
WValue(i) == records[i].value

RECURSIVE SetToSeq(_)
SetToSeq(S) ==
  IF S = {} THEN <<>>
  ELSE LET x == CHOOSE y \in S : TRUE IN <<x>> \o SetToSeq(S \ {x})

\* dns.resolveTxt(addr): one array of chunks per TXT record at addr.
ResolveTxt(a) ==
  <<ForeignTxt>> \o [n \in 1..Cardinality(txt[a]) |-> <<SetToSeq(txt[a])[n]>>]

\* V is in the TXT set of a CNAME target of K.
Visible(i) == i <= Len(records) /\ \E a \in cname[WKey(i)] : WValue(i) \in txt[a]
\* V is published at K itself.
Direct(i) == i <= Len(records) /\ WValue(i) \in txt[WKey(i)]

\* A lookup of some watcher can still read the DNS.
Watching(i) == ivl[i] # NoTimer \/ cnameQ[i] > 0 \/ \E a \in Addrs : txtQ[i][a] > 0
DnsObserved == pc = "registerChallenges" \/ \E i \in Idx : Watching(i)

\* Where the coordinator may publish value v: at the zone's targets that some
\* key is an alias of, or at the record's own key when the key has no CNAME.
PublishTargets(v) ==
  (UNION {cname[k] : k \in KeyNames}) \cup
  {k \in KeyNames : /\ cname[k] = {}
                    /\ \E i \in 1..Len(records) :
                         records[i].key = k /\ records[i].value = v}

\* The coordinator publishes a value it received in registerChallenges.
DnsPublish ==
  /\ DnsObserved
  /\ \E n \in 1..Len(pushed) : \E a \in PublishTargets(pushed[n]) :
       /\ pushed[n] \notin txt[a]
       /\ txt' = [txt EXCEPT ![a] = @ \cup {pushed[n]}]
  /\ UNCHANGED <<zoneVars, pc, failedAt, orderVars, keyVars, rpcCalls, acmeCalls,
                 reported, fin>>
  /\ appearAge' = [i \in Slots |->
                     IF /\ i \in Idx
                        /\ ivl[i] # NoTimer
                        /\ appearAge[i] = NoAge
                        /\ ~seenV[i]
                        /\ Visible(i)'
                       THEN 0 ELSE appearAge[i]]
  /\ UNCHANGED <<ivl, cnameQ, txtQ, settle, signalled, seenV, obsAge>>

\* A published value is withdrawn.
DnsRetract ==
  /\ DnsObserved
  /\ \E a \in Names : \E v \in txt[a] :
       txt' = [txt EXCEPT ![a] = @ \ {v}]
  /\ UNCHANGED <<zoneVars, pc, failedAt, orderVars, keyVars, rpcCalls, acmeCalls,
                 reported, watchVars, fin>>

\* ------------------------------------------------------ waitUntilVerify
\* registerChallenges answered; on success one watcher per record is created
\* (setInterval) and startWorker awaits them all.
RegisterChallengesResp ==
  /\ pc = "registerChallenges"
  /\ \E e \in BOOLEAN :
       IF e
         THEN /\ Reject("registerChallenges")
              /\ UNCHANGED <<ivl, appearAge>>
         ELSE /\ pc' = "waitUntilVerify"
              /\ ivl' = [i \in Slots |-> IF i \in Idx THEN PollInterval ELSE NoTimer]
              /\ appearAge' = [i \in Slots |->
                                 IF i \in Idx /\ Visible(i) THEN 0 ELSE NoAge]
              /\ UNCHANGED failedAt
  /\ UNCHANGED <<zoneVars, txt, orderVars, keyVars, rpcCalls, acmeCalls, reported, fin>>
  /\ UNCHANGED <<cnameQ, txtQ, settle, signalled, seenV, obsAge>>

\* The interval callback: dns.resolveCname(k, ...) is issued.
IntervalTick(i) ==
  /\ i \in Idx
  /\ ivl[i] = 0
  /\ cnameQ[i] < MaxInflight
  /\ ivl' = [ivl EXCEPT ![i] = PollInterval]
  /\ cnameQ' = [cnameQ EXCEPT ![i] = @ + 1]
  /\ UNCHANGED <<zoneVars, txt, pc, failedAt, orderVars, keyVars, rpcCalls, acmeCalls,
                 reported, fin>>
  /\ UNCHANGED <<txtQ, settle, signalled, seenV, appearAge, obsAge>>

\* if (e) { return; } and if (innerE) { return; }: what becomes of the
\* watcher's interval when a lookup is answered with an error.
StopOnError(timer) == NoTimer
SkipTick(timer) == timer

\* The resolveCname callback with an error (always, when K has no CNAME):
\* return.
CnameErr(i) ==
  /\ i \in Idx
  /\ cnameQ[i] > 0
  /\ cnameQ' = [cnameQ EXCEPT ![i] = @ - 1]
  /\ ivl' = [ivl EXCEPT ![i] = SkipTick(@)]
  /\ UNCHANGED <<zoneVars, txt, pc, failedAt, orderVars, keyVars, rpcCalls, acmeCalls,
                 reported, fin>>
  /\ UNCHANGED <<txtQ, settle, signalled, seenV, appearAge, obsAge>>

\* The resolveCname callback with addresses: dns.resolveTxt is issued for
\* every address.
CnameOk(i) ==
  /\ i \in Idx
  /\ cnameQ[i] > 0
  /\ cname[WKey(i)] # {}
  /\ \A a \in cname[WKey(i)] : txtQ[i][a] < MaxInflight
  /\ cnameQ' = [cnameQ EXCEPT ![i] = @ - 1]
  /\ txtQ' = [txtQ EXCEPT ![i] =
                [a \in Addrs |-> IF a \in cname[WKey(i)] THEN @[a] + 1 ELSE @[a]]]
  /\ UNCHANGED <<zoneVars, txt, pc, failedAt, orderVars, keyVars, rpcCalls, acmeCalls,
                 reported, fin>>
  /\ UNCHANGED <<ivl, settle, signalled, seenV, appearAge, obsAge>>

\* The resolveTxt callback with an error: return.
TxtErr(i, a) ==
  /\ i \in Idx
  /\ txtQ[i][a] > 0
  /\ txtQ' = [txtQ EXCEPT ![i][a] = @ - 1]
  /\ ivl' = [ivl EXCEPT ![i] = SkipTick(@)]
  /\ UNCHANGED <<zoneVars, txt, pc, failedAt, orderVars, keyVars, rpcCalls, acmeCalls,
                 reported, fin>>
  /\ UNCHANGED <<cnameQ, settle, signalled, seenV, appearAge, obsAge>>

\* const records = [].concat(...result); if (records.indexOf(v) !== -1)
MatchesAny(result, v) == Len(Flatten(result)) # 0
MatchesUnflattened(result, v) == IndexOfFound(result, v)
Matches(result, v) == IndexOfFound(Flatten(result), v)

\* setTimeout(() => resolve(), 15 * 1000): the pending settle timeouts, the
\* earliest first.
ArmSettleLate(timers) == Append(timers, SettleDelay + Quantum)
ArmSettleEarly(timers) == <<SettleDelay - Quantum>> \o timers
ArmSettle(timers) == Append(timers, SettleDelay)

\* clearInterval(intervalId)
ClearInterval(timer) == NoTimer

\* The resolveTxt callback with an answer: when the flattened answer holds v,
\* the settle timeout is set and the interval is cleared.
TxtOk(i, a) ==
  /\ i \in Idx
  /\ txtQ[i][a] > 0
  /\ txtQ' = [txtQ EXCEPT ![i][a] = @ - 1]
  /\ IF Matches(ResolveTxt(a), WValue(i))
       THEN /\ settle' = [settle EXCEPT ![i] = ArmSettle(@)]
            /\ ivl' = [ivl EXCEPT ![i] = ClearInterval(@)]
       ELSE UNCHANGED <<ivl, settle>>
  /\ IF WValue(i) \in txt[a] /\ ~signalled[i]
       THEN /\ seenV' = [seenV EXCEPT ![i] = TRUE]
            /\ obsAge' = [obsAge EXCEPT ![i] = IF seenV[i] THEN @ ELSE 0]
       ELSE UNCHANGED <<seenV, obsAge>>
  /\ UNCHANGED <<zoneVars, txt, pc, failedAt, orderVars, keyVars, rpcCalls, acmeCalls,
                 reported, fin>>
  /\ UNCHANGED <<cnameQ, signalled, appearAge>>

\* resolve(): the watcher's promise is resolved; on a promise that is already
\* resolved it has no effect.
ResolveToggles(resolved) == ~resolved
Resolve(resolved) == TRUE

\* finalize(c) is started for every element of challenges.
FinalizeFirstOnly(cs) == {n \in DOMAIN cs : n = 1}
FinalizeTasks(cs) == DOMAIN cs

\* The settle timeout fires: resolve(). When every watcher has resolved,
\* Promise.all resolves and startWorker starts one finalize task per
\* challenge, each calling verifyChallenge.
SettleTimeout(i) ==
  /\ i \in Idx
  /\ settle[i] # <<>>
  /\ Head(settle[i]) = 0
  /\ settle' = [settle EXCEPT ![i] = Tail(@)]
  /\ signalled' = [signalled EXCEPT ![i] = Resolve(@)]
  /\ appearAge' = [appearAge EXCEPT ![i] = NoAge]
  /\ obsAge' = [obsAge EXCEPT ![i] = NoAge]
  /\ IF pc = "waitUntilVerify" /\ AllVerified(signalled')
       THEN /\ pc' = "finalize"
            /\ fin' = [j \in Slots |->
                         IF j \in FinalizeTasks(challenges) THEN "verifyChallenge" ELSE "idle"]
            /\ acmeCalls' = acmeCalls \cup
                 {<<"verifyChallenge", j>> : j \in FinalizeTasks(challenges)}
       ELSE UNCHANGED <<pc, fin, acmeCalls>>
  /\ UNCHANGED <<zoneVars, txt, failedAt, orderVars, keyVars, rpcCalls, reported>>
  /\ UNCHANGED <<ivl, cnameQ, txtQ, seenV>>

\* ----------------------------------------------------------------- time
TimerPending(i) == ivl[i] # NoTimer \/ settle[i] # <<>>
TimerDue(i) == ivl[i] = 0 \/ (settle[i] # <<>> /\ Head(settle[i]) = 0)
Older(age, cap) == IF age = NoAge \/ age >= cap THEN age ELSE age + Quantum

\* Time passes while no timer is due and the outstanding lookups of the
\* running watchers are within the bound.
AdvanceTime ==
  /\ \E i \in Idx : TimerPending(i)
  /\ \A i \in Idx : ~TimerDue(i)
  /\ \A i \in Idx : ivl[i] # NoTimer => cnameQ[i] < MaxInflight
  /\ ivl' = [i \in Slots |-> IF ivl[i] = NoTimer THEN NoTimer ELSE ivl[i] - Quantum]
  /\ settle' = [i \in Slots |-> [n \in 1..Len(settle[i]) |-> settle[i][n] - Quantum]]
  /\ appearAge' = [i \in Slots |->
                     IF seenV[i] THEN appearAge[i] ELSE Older(appearAge[i], AppearCap)]
  /\ obsAge' = [i \in Slots |-> Older(obsAge[i], ObsCap)]
  /\ UNCHANGED <<zoneVars, txt, pc, failedAt, orderVars, keyVars, rpcCalls, acmeCalls,
                 reported, fin>>
  /\ UNCHANGED <<cnameQ, txtQ, signalled, seenV>>

\* ------------------------------------------------------------- finalize
FinalizeOps == {"verifyChallenge", "completeChallenge", "waitForValidStatus"}
NextFinalizeSwapped(step) ==
  IF step = "verifyChallenge" THEN "waitForValidStatus"
  ELSE IF step = "waitForValidStatus" THEN "completeChallenge"
  ELSE "done"
NextFinalize(step) ==
  IF step = "verifyChallenge" THEN "completeChallenge"
  ELSE IF step = "completeChallenge" THEN "waitForValidStatus"
  ELSE "done"

\* One awaited ACME call of finalize(challenges[i]) answered: on success the
\* next call of the task is issued; a failure rejects the task and with it
\* startWorker. When the last task finishes, issue() starts with createCsr.
FinalizeStep(i) ==
  /\ i \in Idx
  /\ fin[i] \in FinalizeOps
  /\ \E e \in BOOLEAN :
       IF e
         THEN /\ fin' = [fin EXCEPT ![i] = "failed"]
              /\ Reject("finalize")
              /\ UNCHANGED acmeCalls
         ELSE /\ fin' = [fin EXCEPT ![i] = NextFinalize(@)]
              /\ acmeCalls' = IF fin'[i] = "done" THEN acmeCalls
                              ELSE acmeCalls \cup {<<fin'[i], i>>}
              /\ UNCHANGED failedAt
              /\ IF pc = "finalize" /\ AllFinalized(fin')
                   THEN pc' = "createCsr"
                   ELSE UNCHANGED pc
  /\ UNCHANGED <<zoneVars, txt, orderVars, keyVars, rpcCalls, reported, watchVars>>

\* ---------------------------------------------------------------- issue
\* createCsr({ commonName: domains[0], altNames: domains.slice(1) })
Csr(ds) == [commonName |-> ds[1], altNames |-> Tail(ds)]
\* .toString("base64")
Base64(x) == <<"base64", x>>

\* createCsr resolved; finalizeOrder is called.
CreateCsrDone ==
  /\ pc = "createCsr"
  /\ pc' = "finalizeOrder"
  /\ acmeCalls' = acmeCalls \cup {<<"finalizeOrder", 0>>}
  /\ UNCHANGED <<zoneVars, txt, failedAt, orderVars, keyVars, rpcCalls, reported,
                 watchVars, fin>>

\* finalizeOrder answered; on success getCertificate is called.
FinalizeOrderResp ==
  /\ pc = "finalizeOrder"
  /\ \E e \in BOOLEAN :
       IF e
         THEN /\ Reject("finalizeOrder")
              /\ UNCHANGED acmeCalls
         ELSE /\ pc' = "getCertificate"
              /\ acmeCalls' = acmeCalls \cup {<<"getCertificate", 0>>}
              /\ UNCHANGED failedAt
  /\ UNCHANGED <<zoneVars, txt, orderVars, keyVars, rpcCalls, reported, watchVars, fin>>

\* getCertificate answered; on success verifiedCallback is sent.
GetCertificateResp ==
  /\ pc = "getCertificate"
  /\ \E e \in BOOLEAN :
       IF e
         THEN /\ Reject("getCertificate")
              /\ UNCHANGED <<rpcCalls, reported>>
         ELSE /\ pc' = "verifiedCallback"
              /\ rpcCalls' = Append(rpcCalls, "verifiedCallback")
              /\ reported' = [csr |-> Base64(Csr(domains)),
                              privKey |-> Base64("key"),
                              certificate |-> Base64(<<"cert", order>>)]
              /\ UNCHANGED failedAt
  /\ UNCHANGED <<zoneVars, txt, orderVars, keyVars, acmeCalls, watchVars, fin>>

\* verifiedCallback answered: startWorker's promise settles.
VerifiedCallbackResp ==
  /\ pc = "verifiedCallback"
  /\ \E e \in BOOLEAN :
       IF e THEN Reject("verifiedCallback")
            ELSE pc' = "done" /\ UNCHANGED failedAt
  /\ UNCHANGED <<zoneVars, txt, orderVars, keyVars, rpcCalls, acmeCalls, reported,
                 watchVars, fin>>

\* ------------------------------------------------------- specification
Next ==
  \/ CreatePrivateKeyDone
  \/ RegisterClientResp
  \/ CreateAccountResp
  \/ FetchDomainsResp
  \/ CreateOrderResp
  \/ GetAuthorizationsResp
  \/ \E i \in Slots : KeyAuthorizationResp(i)
  \/ RegisterChallengesResp
  \/ \E i \in Slots : IntervalTick(i)
  \/ \E i \in Slots : CnameErr(i)
  \/ \E i \in Slots : CnameOk(i)
  \/ \E i \in Slots : \E a \in Addrs : TxtErr(i, a)
  \/ \E i \in Slots : \E a \in Addrs : TxtOk(i, a)
  \/ \E i \in Slots : SettleTimeout(i)
  \/ \E i \in Slots : FinalizeStep(i)
  \/ CreateCsrDone
  \/ FinalizeOrderResp
  \/ GetCertificateResp
  \/ VerifiedCallbackResp
  \/ DnsPublish
  \/ DnsRetract
  \/ AdvanceTime

Spec == Init /\ [][Next]_vars

\* The timers of Node's event loop fire, time passes, and every DNS lookup is
\* called back (with an answer or an error).
Fairness ==
  /\ WF_vars(AdvanceTime)
  /\ \A i \in Slots :
       /\ WF_vars(IntervalTick(i))
       /\ WF_vars(SettleTimeout(i))
       /\ WF_vars(CnameErr(i) \/ CnameOk(i))
       /\ \A a \in Addrs : WF_vars(TxtErr(i, a) \/ TxtOk(i, a))

\* DNS lookups eventually succeed: a lookup that is issued again and again is
\* answered without an error again and again.
DnsFair ==
  \A i \in Slots :
    /\ SF_vars(CnameOk(i))
    /\ \A a \in Addrs : SF_vars(TxtOk(i, a))

\* The fair behaviours of a job for a single domain.
SingleInit == Init /\ Len(assigned) = 1
FairSpec == SingleInit /\ [][Next]_vars /\ Fairness /\ DnsFair

\* ------------------------------------------------------------ properties
\* Watcher i exists: its interval or a settle timeout is pending, or it has
\* signalled.
Started(i) == ivl[i] # NoTimer \/ settle[i] # <<>> \/ signalled[i]
\* V is in the TXT set of address a, a CNAME target of K.
VisibleAt(i, a) == i <= Len(records) /\ a \in cname[WKey(i)] /\ WValue(i) \in txt[a]
\* The finalize calls issued so far.
FinalizeCalls == {c \in acmeCalls : c[1] \in FinalizeOps}

Range(q) == {q[n] : n \in 1..Len(q)}

\* C1: no finalize call (verifyChallenge, completeChallenge,
\* waitForValidStatus) of any challenge is issued before every watcher of the
\* batch has signalled.
C1_BatchBarrier ==
  FinalizeCalls # {} => \A i \in Idx : signalled[i]

\* Two records, the second watcher has signalled, the first has not, and the
\* job is held at the barrier.
C1_Witness ==
  /\ N = 2
  /\ signalled[2] /\ ~signalled[1]
  /\ pc = "waitUntilVerify"
  /\ FinalizeCalls = {}

\* C2: a watcher signals (or has its settle timeout pending) only after a TXT
\* answer for a CNAME target of K contained V.
C2_SignalOnlyAfterObservation ==
  \A i \in Idx : (signalled[i] \/ settle[i] # <<>>) => seenV[i]

\* A watcher has signalled after observing V.
C2_Witness ==
  \E i \in Idx : signalled[i] /\ seenV[i]

\* C3 (as amended): the watcher signals no later than the settle delay (15 s)
\* after its first observation of V: no watcher that has observed V is still
\* unsignalled more than SettleDelay seconds later.
C3_SignalsWithinSettleOfObservation ==
  \A i \in Slots : obsAge[i] <= SettleDelay

\* A watcher is about to signal, SettleDelay after an observation that came
\* more than a poll interval after V appeared.
C3_Witness ==
  \E i \in Idx : obsAge[i] = SettleDelay /\ appearAge[i] > PollInterval

\* C3 (original): the watcher signals no later than one poll interval plus the
\* settle delay after V first appeared at a CNAME target of K.
C3_Original ==
  \A i \in Slots :
    appearAge[i] # NoAge =>
      appearAge[i] + (IF obsAge[i] = NoAge THEN 0 ELSE obsAge[i])
        <= PollInterval + SettleDelay

\* C4 (as amended): the watcher detects V when it is reached through a CNAME
\* from K: if V stays in the TXT set of a CNAME target of K and lookups
\* eventually succeed, the watcher eventually signals. (V published at K
\* itself, with no CNAME, is not detected.)
C4_DetectsThroughCname ==
  \A i \in Slots : \A a \in Addrs :
    <>[](Started(i) /\ VisibleAt(i, a)) => <>signalled[i]

\* C4 (original): the watcher also detects V published directly at K.
C4_Original ==
  \A i \in Slots :
    /\ <>[](Started(i) /\ Direct(i)) => <>signalled[i]
    /\ \A a \in Addrs : <>[](Started(i) /\ VisibleAt(i, a)) => <>signalled[i]

\* V is reached through a CNAME and the watcher has signalled.
C4_Witness ==
  \E i \in Idx : \E a \in Addrs : VisibleAt(i, a) /\ signalled[i]

\* Some authorization offers no dns-01 challenge.
LacksDns01 ==
  \E i \in 1..Len(auths) :
    \A n \in 1..Len(auths[i].challenges) : auths[i].challenges[n].type # "dns-01"

\* C5: if an authorization offers no dns-01 challenge, the job has failed,
\* registerChallenges was not sent, no watcher exists and nothing is reported.
C5_NoDns01Fails ==
  LacksDns01 =>
    /\ pc = "failed"
    /\ pushed = <<>>
    /\ "registerChallenges" \notin Range(rpcCalls)
    /\ \A i \in Slots : ~Started(i)
    /\ reported = <<>>

\* getChallenges has thrown for an authorization without dns-01.
C5_Witness ==
  LacksDns01 /\ failedAt = "getChallenges"

\* C6: if fetchDomains was answered with an error, no order is created and
\* registerChallenges is never sent.
C6_FetchErrorStops ==
  failedAt = "fetchDomains" =>
    /\ <<"createOrder", 0>> \notin acmeCalls
    /\ "registerChallenges" \notin Range(rpcCalls)
    /\ pushed = <<>>

\* fetchDomains was answered with an error.
C6_Witness ==
  failedAt = "fetchDomains" /\ pc = "failed"

\* C7: the expected records are one per domain, in domain order: records[i]
\* has the key of domains[i] and challenges[i] is the challenge of domains[i].
C7_DomainOrder ==
  records # <<>> =>
    /\ Len(records) = Len(domains)
    /\ \A i \in 1..Len(records) :
         /\ records[i].key = "_acme-challenge." \o domains[i]
         /\ challenges[i].auth.identifier.value = domains[i]

\* C8: once startWorker has failed, the job issues no further ACME call, RPC
\* or DNS lookup.
C8_TerminalOnFailure ==
  [][pc = "failed" =>
       /\ acmeCalls' = acmeCalls
       /\ rpcCalls' = rpcCalls
       /\ \A i \in Slots :
            /\ cnameQ'[i] <= cnameQ[i]
            /\ \A a \in Addrs : txtQ'[i][a] <= txtQ[i][a]]_vars

\* C9 (as amended): the registerChallenges request carries, for every computed
\* record, its expected value (not its key), in record order.
C9_ValuesInRecordOrder ==
  pushed # <<>> =>
    /\ Len(pushed) = Len(records)
    /\ \A i \in 1..Len(records) : pushed[i] = records[i].value

\* The strings the i-th element of the request's records field carries.
Carried(i) == IF i <= Len(pushed) THEN {pushed[i]} ELSE {}

\* A batch of two records was sent.
C9_Witness ==
  Len(pushed) = 2 /\ pushed[1] # pushed[2]

\* C9 (original): the request carries every record with its key and value.
C9_Original ==
  pushed # <<>> =>
    \A i \in 1..Len(records) : {records[i].key, records[i].value} \subseteq Carried(i)

\* Watcher i is polling and the job is held at the barrier.
Stalled(i) ==
  /\ pc = "waitUntilVerify"
  /\ ivl[i] # NoTimer
  /\ ~signalled[i]
  /\ FinalizeCalls = {}
  /\ reported = <<>>

C11_WatchersIndependent ==
  [][\A i \in Slots : \A j \in Slots \ {i} :
       /\ (signalled'[i] /\ ~signalled[i]) => seenV[i]
       /\ (Started(i) /\ ~seenV[i]) => (ivl[i] # NoTimer /\ ~signalled[i])
       /\ (signalled'[i] # signalled[i] \/ seenV'[i] # seenV[i]) =>
            /\ ivl'[j] = ivl[j]
            /\ settle'[j] = settle[j]
            /\ signalled'[j] = signalled[j]]_vars

\* Two watchers; the second has signalled on its own value while the value of
\* the first is not visible and the first is still polling.
C11_Witness ==
  /\ N = 2
  /\ signalled[2] /\ seenV[2]
  /\ ~Visible(1) /\ ~seenV[1] /\ ivl[1] # NoTimer /\ cnameQ[1] > 0

\* The coordinator RPCs in the order the job issues them.
RpcOrder == <<"registerClient", "fetchDomains", "registerChallenges", "verifiedCallback">>

C13_NoPartialCertificate ==
  /\ ( \/ <<"finalizeOrder", 0>> \in acmeCalls
       \/ <<"getCertificate", 0>> \in acmeCalls
       \/ "verifiedCallback" \in Range(rpcCalls)
       \/ reported # <<>> ) =>
       /\ N = Len(domains)
       /\ \A i \in Idx : fin[i] = "done"
  /\ (\E i \in Idx : fin[i] = "failed") =>
       /\ <<"finalizeOrder", 0>> \notin acmeCalls
       /\ reported = <<>>
       /\ pc = "failed"

\* Of two challenges one has completed finalize and the other has failed.
C13_Witness ==
  /\ N = 2
  /\ fin[1] = "failed" /\ fin[2] = "done"
  /\ <<"finalizeOrder", 0>> \notin acmeCalls

\* C14: a CNAME or TXT lookup answered with an error does not fail the job,
\* does not make the watcher observe or signal, sets no settle timeout and
\* leaves the watcher's interval running as it was, so that the next tick
\* issues a new lookup.
C14_DnsErrorsAbsorbed ==
  [][\A i \in Slots : \A a \in Addrs :
       (CnameErr(i) \/ TxtErr(i, a)) =>
         /\ pc' = pc
         /\ failedAt' = failedAt
         /\ signalled' = signalled
         /\ seenV' = seenV
         /\ settle' = settle
         /\ ivl' = ivl
         /\ (~seenV[i] => ivl'[i] # NoTimer)]_vars

\* The value has been visible at a CNAME target for more than a poll interval
\* while the watcher was polling, every lookup has been answered, and the
\* watcher is still polling without an observation.
C14_Witness ==
  \E i \in Idx :
    /\ pc = "waitUntilVerify"
    /\ Visible(i) /\ appearAge[i] > PollInterval
    /\ ~seenV[i] /\ ~signalled[i]
    /\ ivl[i] # NoTimer
    /\ cnameQ[i] = 0 /\ \A a \in Addrs : txtQ[i][a] = 0

\* C15: after the first observation of V the watcher issues no further CNAME
\* or TXT lookup for that record.
C15_NoLookupAfterObservation ==
  [][\A i \in Slots :
       seenV[i] =>
         /\ cnameQ'[i] <= cnameQ[i]
         /\ \A a \in Addrs : txtQ'[i][a] <= txtQ[i][a]]_vars

\* C16: a watcher signals no earlier than the settle delay after its first
\* observation of V, and once the delay has passed time does not go on without
\* the signal, whatever the DNS holds by then.
C16_SettleDelay ==
  [][\A i \in Slots :
       /\ (signalled'[i] /\ ~signalled[i]) => obsAge[i] >= SettleDelay
       /\ (~signalled[i] /\ obsAge[i] >= SettleDelay) =>
            (signalled'[i] \/ obsAge'[i] = obsAge[i])]_vars

\* The settle delay of a watcher has passed, its signal is due, and V is no
\* longer visible.
C16_Witness ==
  \E i \in Idx :
    seenV[i] /\ ~signalled[i] /\ obsAge[i] = SettleDelay /\ ~Visible(i)

\* The finalize calls issued for challenge i.
FinalizeCallsOf(i) == {c[1] : c \in {d \in FinalizeCalls : d[2] = i}}

\* C17: for each challenge the finalize calls are issued in the order
\* verifyChallenge, completeChallenge, waitForValidStatus, each when the call
\* before it has succeeded; once a call of the challenge has failed, no further
\* call is issued for it.
C17_FinalizeStepOrder ==
  [][\A i \in Slots :
       /\ ("verifyChallenge" \in FinalizeCallsOf(i)' \ FinalizeCallsOf(i)) =>
            fin[i] = "idle" /\ fin'[i] = "verifyChallenge"
       /\ ("completeChallenge" \in FinalizeCallsOf(i)' \ FinalizeCallsOf(i)) =>
            fin[i] = "verifyChallenge" /\ fin'[i] = "completeChallenge"
       /\ ("waitForValidStatus" \in FinalizeCallsOf(i)' \ FinalizeCallsOf(i)) =>
            fin[i] = "completeChallenge" /\ fin'[i] = "waitForValidStatus"
       /\ fin'[i] = "done" =>
            FinalizeCallsOf(i)' = FinalizeOps /\ fin[i] \in {"waitForValidStatus", "done"}
       /\ fin[i] = "failed" =>
            fin'[i] = "failed" /\ FinalizeCallsOf(i)' = FinalizeCallsOf(i)]_vars

\* completeChallenge of a challenge has failed and its waitForValidStatus was
\* not issued.
C17_Witness ==
  \E i \in Idx :
    /\ fin[i] = "failed"
    /\ FinalizeCallsOf(i) = {"verifyChallenge", "completeChallenge"}

\* The challenges whose finalize has been started.
FinalizeStarted == {c[2] : c \in {d \in acmeCalls : d[1] = "verifyChallenge"}}
\* Once finalization has started, it has started for every challenge that
\* getChallenges returned and for nothing else.
FinalizedExactly ==
  FinalizeCalls # {} =>
    /\ challenges = SelectChallenges(auths)
    /\ FinalizeStarted = DOMAIN challenges
    /\ \A i \in Slots : fin[i] # "idle" <=> i \in DOMAIN challenges

\* C18: finalization is started with exactly the challenges getChallenges
\* returned: every one of them and no other, each once.
C18_FinalizeExactlyReturned ==
  [][/\ FinalizedExactly'
     /\ \A i \in Slots :
          (fin'[i] = "verifyChallenge" /\ fin[i] # "verifyChallenge") =>
            /\ fin[i] = "idle"
            /\ <<"verifyChallenge", i>> \notin acmeCalls]_vars

\* Both challenges of a two-domain order have completed finalize.
C18_Witness ==
  /\ N = 2
  /\ FinalizeStarted = {1, 2}
  /\ \A i \in Idx : fin[i] = "done"

\* C19: whatever the order in which the concurrent key-authorization requests
\* complete, the value received for position i is the key authorization of
\* challenges[i], and records[i] has the key built from the identifier of
\* challenges[i]'s authorization and that value.
C19_RecordsMatchChallenges ==
  /\ \A i \in Idx :
       keyTask[i] = "done" => keyVals[i] = "ka:" \o challenges[i].challenge.token
  /\ records # <<>> =>
       /\ Len(records) = Len(challenges)
       /\ \A i \in 1..Len(records) :
            /\ records[i].key = "_acme-challenge." \o challenges[i].auth.identifier.value
            /\ records[i].value = "ka:" \o challenges[i].challenge.token

\* The request of the second challenge has completed before that of the
\* first.
C19_Witness ==
  /\ N = 2
  /\ keyTask[2] = "done" /\ keyTask[1] = "pending"
  /\ challenges[1].challenge.token # challenges[2].challenge.token

\* pending (0): no observation yet; propagating (1): V observed, settle delay
\* running; verified (2): the watcher has signalled.
VerificationState(i) ==
  IF signalled[i] THEN 2 ELSE IF seenV[i] THEN 1 ELSE 0

\* C20: the verification state of a record only moves forward; a verified
\* record stays verified, and a settle timeout that fires for a record that is
\* already verified changes nothing but the list of pending timeouts.
C20_ForwardOnly ==
  [][\A i \in Slots :
       /\ VerificationState(i)' >= VerificationState(i)
       /\ (signalled[i] /\ Len(settle'[i]) < Len(settle[i])) =>
            /\ signalled' = signalled
            /\ pc' = pc
            /\ fin' = fin
            /\ acmeCalls' = acmeCalls]_vars

\* A record is verified while a further settle timeout of its watcher is
\* still pending.
C20_Witness ==
  \E i \in Idx : signalled[i] /\ seenV[i] /\ settle[i] # <<>>

====
